---------------------------- MODULE Spec2Model ----------------------------
(***************************************************************************)
(* Model of fun.FourierTransLL (src/fun/fourier.go): the in-place radix-2  *)
(* FFT on a caller-owned buffer of interleaved (real, imaginary) entries,  *)
(* together with IsPowerOfTwo and Swap.                                    *)
(*                                                                         *)
(* One call is modelled statement by statement; the caller may call again  *)
(* on the same buffer.  Indices are the source's own (0-based slice).      *)
(*                                                                         *)
(* float64 values are modelled as exact reals of the ring Z[1/2][sqrt 2]:  *)
(* <<a, b, k>> stands for (a + b*sqrt(2)) / 2^k in lowest terms.  Every    *)
(* value the routine produces from integer input for n = 2, 4, 8 lies in   *)
(* this ring; rounding error of float64 is outside the model.              *)
(***************************************************************************)
EXTENDS Integers, Sequences, FiniteSets

\* ---------------------------------------------------------------- bounds
MaxLen == 20     \* buffer lengths 0..MaxLen are tried
MaxVal == 1      \* input entries are integers in -MaxVal..MaxVal
MaxCalls == 2    \* number of successive calls on the same buffer

\* ------------------------------------------------- exact real arithmetic
RECURSIVE Pow2(_)
Pow2(k) == IF k = 0 THEN 1 ELSE 2 * Pow2(k - 1)

RECURSIVE Norm(_, _, _)
Norm(a, b, k) ==
    IF k > 0 /\ a % 2 = 0 /\ b % 2 = 0
    THEN Norm(a \div 2, b \div 2, k - 1)
    ELSE <<a, b, k>>

Float(v) == <<v, 0, 0>>

Zero == Float(0)

One == Float(1)

Add(x, y) ==
    LET k == IF x[3] > y[3] THEN x[3] ELSE y[3]
        sx == Pow2(k - x[3])
        sy == Pow2(k - y[3])
    IN  Norm(sx * x[1] + sy * y[1], sx * x[2] + sy * y[2], k)

Neg(x) == <<0 - x[1], 0 - x[2], x[3]>>

Sub(x, y) == Add(x, Neg(y))

Mul(x, y) ==
    Norm(x[1] * y[1] + 2 * x[2] * y[2], x[1] * y[2] + x[2] * y[1], x[3] + y[3])

\* math.Sin(theta) for theta = 2*Pi/mmax
Sin2PiOver(mmax) ==
    CASE mmax = 2 -> Zero
      [] mmax = 4 -> One
      [] mmax = 8 -> <<0, 1, 1>>

\* math.Sin(0.5*theta)^2 for theta = +-2*Pi/mmax; sin(Pi/8) itself is not in
\* the ring, its square (2 - sqrt 2)/4 is, and the routine only uses the square
SinHalfSq(mmax) ==
    CASE mmax = 2 -> One
      [] mmax = 4 -> <<1, 0, 1>>
      [] mmax = 8 -> <<2, -1, 2>>

\* ------------------------------------------------------------ bit tricks
RECURSIVE BitAnd(_, _)
BitAnd(a, b) ==
    IF a = 0 \/ b = 0 THEN 0
    ELSE (a % 2) * (b % 2) + 2 * BitAnd(a \div 2, b \div 2)

\* a test for evenness instead of n&(n-1)
IsEven(k) == IF k < 1 THEN FALSE ELSE BitAnd(k, 1) = 0

IsPowerOfTwo(k) == IF k < 1 THEN FALSE ELSE BitAnd(k, k - 1) = 0

\* a Swap that overwrites *a before reading it
SwapLost(d, p, q) == [d EXCEPT ![p] = d[q]]

\* Swap(&data[p], &data[q])
Swap(d, p, q) == [d EXCEPT ![p] = d[q], ![q] = d[p]]

\* ----------------------------------------------------------------- state
VARIABLES
    data,      \* the caller's buffer, a function 0..len-1 -> reals
    inverse,   \* the flag of the current call
    err,       \* the result of the current call
    pc,        \* position in the call
    calls,     \* the flags of the calls made so far
    entry,     \* the buffer as it was when the current call was entered
    x0,        \* the buffer as it was before the first call
    ldata, n, nn, i, j, m, mmax, istep, isign, wr, wi, wpr, wpi

vars == <<data, inverse, err, pc, calls, entry, x0,
          ldata, n, nn, i, j, m, mmax, istep, isign, wr, wi, wpr, wpi>>

LenData == Cardinality(DOMAIN data)

InRange(p) == p >= 0 /\ p < LenData

\* ---------------------------------------------------------------- inputs
Vals == (0 - MaxVal)..MaxVal

ZeroInput(L) == [p \in 0..(L - 1) |-> Zero]

\* at most two non-zero entries
SparseInputs(L) ==
    {[p \in 0..(L - 1) |-> IF p = q1 THEN Float(v1)
                           ELSE IF p = q2 THEN Float(v2) ELSE Zero] :
        q1 \in 0..(L - 1), q2 \in 0..(L - 1), v1 \in Vals, v2 \in Vals}

\* every real part 1, every imaginary part 0
AllOnes(L) == [p \in 0..(L - 1) |-> IF p % 2 = 0 THEN One ELSE Zero]

\* pairwise distinct entries
Ramp(L) == [p \in 0..(L - 1) |-> Float(p + 1)]

Inputs(L) == {ZeroInput(L), AllOnes(L), Ramp(L)} \cup SparseInputs(L)

Init ==
    /\ \E L \in 0..MaxLen : data \in Inputs(L)
    /\ x0 = data
    /\ entry = data
    /\ inverse = FALSE
    /\ err = "nil"
    /\ pc = "idle"
    /\ calls = <<>>
    /\ ldata = 0 /\ n = 0 /\ nn = 0 /\ i = 0 /\ j = 0 /\ m = 0
    /\ mmax = 0 /\ istep = 0 /\ isign = 0
    /\ wr = Zero /\ wi = Zero /\ wpr = Zero /\ wpi = Zero

\* --------------------------------------------------------------- actions
\* the caller enters FourierTransLL(data, inv)
Call ==
    /\ pc \in {"idle", "ret"}
    /\ Len(calls) < MaxCalls
    /\ \E inv \in BOOLEAN :
        /\ inverse' = inv
        /\ calls' = Append(calls, inv)
    /\ entry' = data
    /\ err' = "nil"
    /\ pc' = "checklen"
    /\ ldata' = 0 /\ n' = 0 /\ nn' = 0 /\ i' = 0 /\ j' = 0 /\ m' = 0
    /\ mmax' = 0 /\ istep' = 0 /\ isign' = 0
    /\ wr' = Zero /\ wi' = Zero /\ wpr' = Zero /\ wpi' = Zero
    /\ UNCHANGED <<data, x0>>

\* check length of data
CheckLength ==
    /\ pc = "checklen"
    /\ ldata' = LenData
    /\ IF ldata' < 4 \/ ldata' % 2 > 0
       THEN err' = "InvalidLength" /\ pc' = "ret"
       ELSE err' = err /\ pc' = "checkpow"
    /\ UNCHANGED <<data, inverse, calls, entry, x0,
                   n, nn, i, j, m, mmax, istep, isign, wr, wi, wpr, wpi>>

\* the power-of-two check placed after the first exchange of the bit-reversal
\* loop (i = 3, j = n + 1)
CheckPowerOfTwoLate ==
    /\ pc = "checkpow"
    /\ n' = ldata \div 2
    /\ IF n' < 2 \/ ~IsPowerOfTwo(n')
       THEN /\ err' = "NotPowerOfTwo"
            /\ pc' = "ret"
            /\ data' = Swap(Swap(data, n', 2), n' + 1, 3)
            /\ UNCHANGED <<nn, i, j>>
       ELSE /\ err' = err
            /\ nn' = 2 * n'
            /\ j' = 1
            /\ i' = 1
            /\ pc' = "bitrev"
            /\ UNCHANGED data
    /\ UNCHANGED <<inverse, calls, entry, x0,
                   ldata, m, mmax, istep, isign, wr, wi, wpr, wpi>>

\* check for power of two; on success enter the bit-reversal section
CheckPowerOfTwo ==
    /\ pc = "checkpow"
    /\ n' = ldata \div 2
    /\ IF n' < 2 \/ ~IsPowerOfTwo(n')
       THEN /\ err' = "NotPowerOfTwo"
            /\ pc' = "ret"
            /\ UNCHANGED <<nn, i, j>>
       ELSE /\ err' = err
            /\ nn' = 2 * n'
            /\ j' = 1
            /\ i' = 1
            /\ pc' = "bitrev"
    /\ UNCHANGED <<data, inverse, calls, entry, x0,
                   ldata, m, mmax, istep, isign, wr, wi, wpr, wpi>>

\* one pass of the bit-reversal loop up to the carry loop
BitRevSwap ==
    /\ pc = "bitrev"
    /\ i < nn
    /\ IF j > i
       THEN IF InRange(j - 1) /\ InRange(i - 1) /\ InRange(j) /\ InRange(i)
            THEN /\ data' = Swap(Swap(data, j - 1, i - 1), j, i)
                 /\ m' = n
                 /\ pc' = "carry"
            ELSE /\ pc' = "panic"
                 /\ UNCHANGED <<data, m>>
       ELSE /\ m' = n
            /\ pc' = "carry"
            /\ UNCHANGED data
    /\ UNCHANGED <<inverse, err, calls, entry, x0,
                   ldata, n, nn, i, j, mmax, istep, isign, wr, wi, wpr, wpi>>

CarryCond(mm, jj) == mm >= 2 /\ jj > mm

\* one pass of the carry loop
CarryStep ==
    /\ pc = "carry"
    /\ CarryCond(m, j)
    /\ j' = j - m
    /\ m' = m \div 2
    /\ UNCHANGED <<data, inverse, err, pc, calls, entry, x0,
                   ldata, n, nn, i, mmax, istep, isign, wr, wi, wpr, wpi>>

\* the carry loop ends: j += m, then i += 2
CarryExit ==
    /\ pc = "carry"
    /\ ~CarryCond(m, j)
    /\ j' = j + m
    /\ i' = i + 2
    /\ pc' = "bitrev"
    /\ UNCHANGED <<data, inverse, err, calls, entry, x0,
                   ldata, n, nn, m, mmax, istep, isign, wr, wi, wpr, wpi>>

\* the sign convention of reference [1]
IsignNR(inv) == IF inv THEN 0 - 1 ELSE 1

\* direct transform: -1, inverse: +1
Isign(inv) == IF inv THEN 1 ELSE 0 - 1

\* the bit-reversal loop ends: set isign, mmax := 2
SetIsign ==
    /\ pc = "bitrev"
    /\ ~(i < nn)
    /\ isign' = Isign(inverse)
    /\ mmax' = 2
    /\ pc' = "outer"
    /\ UNCHANGED <<data, inverse, err, calls, entry, x0,
                   ldata, n, nn, i, j, m, istep, wr, wi, wpr, wpi>>

\* one stage short
OuterCondShort(nnv, mmaxv) == nnv > 2 * mmaxv

\* one stage too many
OuterCondLong(nnv, mmaxv) == nnv >= mmaxv

OuterCond(nnv, mmaxv) == nnv > mmaxv

\* a stage begins: initialize the trigonometric recurrence
StageBegin ==
    /\ pc = "outer"
    /\ OuterCond(nn, mmax)
    /\ istep' = 2 * mmax
    /\ wpr' = Mul(Float(0 - 2), SinHalfSq(mmax))
    /\ wpi' = Mul(Float(isign), Sin2PiOver(mmax))
    /\ wr' = One
    /\ wi' = Zero
    /\ m' = 1
    /\ pc' = "mloop"
    /\ UNCHANGED <<data, inverse, err, calls, entry, x0,
                   ldata, n, nn, i, j, mmax, isign>>

\* the loop over m continues: i := m
SubOffset ==
    /\ pc = "mloop"
    /\ m < mmax
    /\ i' = m
    /\ pc' = "inner"
    /\ UNCHANGED <<data, inverse, err, calls, entry, x0,
                   ldata, n, nn, j, m, mmax, istep, isign, wr, wi, wpr, wpi>>

\* j = i + istep
PartnerStep(iv, mmaxv, istepv) == iv + istepv

\* j = i + mmax
Partner(iv, mmaxv, istepv) == iv + mmaxv

\* the Danielson-Lanczos formula on the pairs at i and jj
Formula(d, iv, jj, wrv, wiv) ==
    LET tempr == Sub(Mul(wrv, d[jj - 1]), Mul(wiv, d[jj]))
        tempi == Add(Mul(wrv, d[jj]), Mul(wiv, d[jj - 1]))
    IN  [d EXCEPT ![jj - 1] = Sub(d[iv - 1], tempr),
                  ![jj] = Sub(d[iv], tempi),
                  ![iv - 1] = Add(d[iv - 1], tempr),
                  ![iv] = Add(d[iv], tempi)]

\* one butterfly
Butterfly ==
    /\ pc = "inner"
    /\ i <= nn
    /\ j' = Partner(i, mmax, istep)
    /\ IF InRange(j' - 1) /\ InRange(j') /\ InRange(i - 1) /\ InRange(i)
       THEN /\ data' = Formula(data, i, j', wr, wi)
            /\ i' = i + istep
            /\ pc' = pc
       ELSE /\ pc' = "panic"
            /\ UNCHANGED <<data, i>>
    /\ UNCHANGED <<inverse, err, calls, entry, x0,
                   ldata, n, nn, m, mmax, istep, isign, wr, wi, wpr, wpi>>

\* the recurrence without wtemp: wi computed from the new wr
RecurrenceNoTemp(wrv, wiv, wprv, wpiv) ==
    LET wrn == Add(Sub(Mul(wrv, wprv), Mul(wiv, wpiv)), wrv)
        win == Add(Add(Mul(wiv, wprv), Mul(wrn, wpiv)), wiv)
    IN  <<wrn, win>>

\* the trigonometric recurrence: <<wr, wi>> after one advance
Recurrence(wrv, wiv, wprv, wpiv) ==
    LET wtemp == wrv
        wrn == Add(Sub(Mul(wrv, wprv), Mul(wiv, wpiv)), wrv)
        win == Add(Add(Mul(wiv, wprv), Mul(wtemp, wpiv)), wiv)
    IN  <<wrn, win>>

\* the butterflies of sub-offset m are done: advance (wr, wi), m += 2
Advance ==
    /\ pc = "inner"
    /\ ~(i <= nn)
    /\ wr' = Recurrence(wr, wi, wpr, wpi)[1]
    /\ wi' = Recurrence(wr, wi, wpr, wpi)[2]
    /\ m' = m + 2
    /\ pc' = "mloop"
    /\ UNCHANGED <<data, inverse, err, calls, entry, x0,
                   ldata, n, nn, i, j, mmax, istep, isign, wpr, wpi>>

\* the loop over m ends: mmax = istep
StageEnd ==
    /\ pc = "mloop"
    /\ ~(m < mmax)
    /\ mmax' = istep
    /\ pc' = "outer"
    /\ UNCHANGED <<data, inverse, err, calls, entry, x0,
                   ldata, n, nn, i, j, m, istep, isign, wr, wi, wpr, wpi>>

\* the entries the inverse fix multiplies: for i := 0; i < n; i++
Fixed(nv) == 0..(nv - 1)

\* the stages are done: fix inverse results and return
FixInverse ==
    /\ pc = "outer"
    /\ ~OuterCond(nn, mmax)
    /\ IF inverse
       THEN data' = [p \in DOMAIN data |->
                        IF p \in Fixed(n) THEN Mul(data[p], Float(n))
                        ELSE data[p]]
       ELSE data' = data
    /\ pc' = "ret"
    /\ UNCHANGED <<inverse, err, calls, entry, x0,
                   ldata, n, nn, i, j, m, mmax, istep, isign, wr, wi, wpr, wpi>>

Step ==
    \/ CheckLength
    \/ CheckPowerOfTwo
    \/ BitRevSwap
    \/ CarryStep
    \/ CarryExit
    \/ SetIsign
    \/ StageBegin
    \/ SubOffset
    \/ Butterfly
    \/ Advance
    \/ StageEnd
    \/ FixInverse

Next == Call \/ Step

Spec == Init /\ [][Next]_vars

\* termination does not depend on the entries: one buffer of every length
InitRamp ==
    /\ Init
    /\ data = Ramp(LenData)

\* a call that was entered keeps running: the routine is straight-line
\* sequential code with no suspension point; the caller need not call again
FairSpec == InitRamp /\ [][Next]_vars /\ WF_vars(Step)

\* ------------------------------------------------- reference definitions
Returned == pc = "ret"

Validated == pc \in {"bitrev", "carry", "outer", "mloop", "inner", "panic"}

\* the outcome the length alone determines
Classify(L) ==
    IF L < 4 \/ L % 2 = 1 THEN "InvalidLength"
    ELSE IF L \div 2 < 2 \/ ~(\E e \in 0..L : L \div 2 = Pow2(e))
         THEN "NotPowerOfTwo"
         ELSE "nil"

RECURSIVE Log2(_)
Log2(k) == IF k <= 1 THEN 0 ELSE 1 + Log2(k \div 2)

\* k read backwards as a number of the given count of bits
RECURSIVE Rev(_, _)
Rev(k, bits) ==
    IF bits = 0 THEN 0
    ELSE (k % 2) * Pow2(bits - 1) + Rev(k \div 2, bits - 1)

Pair(d, k) == <<d[2 * k], d[2 * k + 1]>>

Pairs(d) == {Pair(d, k) : k \in 0..((Cardinality(DOMAIN d) \div 2) - 1)}

Half == <<0, 1, 1>>

\* cos and sin of 2*Pi*t/8
Cos8(t) ==
    CASE t % 8 \in {0} -> One
      [] t % 8 \in {1, 7} -> Half
      [] t % 8 \in {2, 6} -> Zero
      [] t % 8 \in {3, 5} -> Neg(Half)
      [] t % 8 \in {4} -> Neg(One)

Sin8(t) == Cos8(t + 6)

\* x[k] * e^(sign * i*2*Pi*k*l/nv) for nv in {2, 4, 8}
Term(x, nv, k, l, sign) ==
    LET t == sign * k * l * (8 \div nv)
        c == Cos8(t)
        s == Sin8(t)
    IN  <<Sub(Mul(x[2 * k], c), Mul(x[2 * k + 1], s)),
          Add(Mul(x[2 * k], s), Mul(x[2 * k + 1], c))>>

RECURSIVE DFTSum(_, _, _, _, _)
DFTSum(x, nv, k, l, sign) ==
    IF k < 0 THEN <<Zero, Zero>>
    ELSE LET rest == DFTSum(x, nv, k - 1, l, sign)
             t == Term(x, nv, k, l, sign)
         IN  <<Add(rest[1], t[1]), Add(rest[2], t[2])>>

DFT(x, nv, l, sign) == DFTSum(x, nv, nv - 1, l, sign)

Impulse(L) == [p \in 0..(L - 1) |-> IF p = 0 THEN One ELSE Zero]

\* ---------------------------------------------------------------- claims
\* C1: a call that returns an error has written no element of data: the
\* buffer is identical to the buffer at entry.
C1_ErrorLeavesDataUnchanged ==
    (Returned /\ err # "nil") => data = entry

C1_Witness ==
    /\ Returned /\ err = "NotPowerOfTwo" /\ inverse
    /\ LenData = 12 /\ data = Ramp(12)

\* C2: the outcome is the one the length determines: InvalidLength if
\* L < 4 or L odd, else NotPowerOfTwo if n = L/2 is < 2 or no power of two,
\* else no error; whatever the flag and the entries.
C2_Classification ==
    /\ Returned => err = Classify(LenData)
    /\ Validated => Classify(LenData) = "nil"
    /\ pc = "checkpow" => Classify(LenData) # "InvalidLength"

C2_Witness ==
    /\ Returned /\ err = "NotPowerOfTwo" /\ LenData = 10 /\ ~inverse

\* C3: the inverse fix multiplies every one of the 2n entries by n, after
\* the stages; a forward call scales nothing.
C3_ScalesAllEntries ==
    [][(pc = "outer" /\ pc' = "ret") =>
          IF inverse
          THEN \A p \in DOMAIN data : data'[p] = Mul(data[p], Float(n))
          ELSE data' = data]_vars

\* C4: forward then inverse on the same buffer leaves c * x for one factor c
\* that is the same for all 2n entries.
C4_RoundTrip ==
    (Returned /\ err = "nil" /\ calls = <<FALSE, TRUE>>) =>
        \E c \in 1..(n * n * n) :
            \A p \in DOMAIN data : data[p] = Mul(x0[p], Float(c))

\* C5: a successful forward call leaves in data the DFT of the buffer at
\* entry, with exponent sign -1.
C5_ForwardIsDFT ==
    (Returned /\ err = "nil" /\ ~inverse) =>
        \A l \in 0..(n - 1) : Pair(data, l) = DFT(entry, n, l, 0 - 1)

\* impulse at sample 1, n = 4: (1, -i, -1, i)
C5_Witness ==
    /\ Returned /\ ~inverse /\ LenData = 8
    /\ entry = [p \in 0..7 |-> IF p = 2 THEN One ELSE Zero]
    /\ data = [p \in 0..7 |-> IF p \in {0, 7} THEN One
                              ELSE IF p \in {3, 4} THEN Neg(One) ELSE Zero]

\* C6: a forward call on the impulse [1,0,0,...,0] ends with [1,0,1,0,...].
C6_ImpulseResponse ==
    (Returned /\ err = "nil" /\ ~inverse /\ entry = Impulse(LenData)) =>
        data = AllOnes(LenData)

C6_Witness ==
    /\ Returned /\ ~inverse /\ LenData = 16 /\ entry = Impulse(16)
    /\ data = AllOnes(16) /\ calls = <<FALSE>>

\* C7: after validation every index of an exchange and of a butterfly lies
\* in 0..2n-1, no access is out of range, and the call returns nil.
C7_IndicesInRange ==
    /\ pc # "panic"
    /\ (pc = "bitrev" /\ i < nn /\ j > i) =>
           \A p \in {i - 1, i, j - 1, j} : p \in 0..(2 * n - 1) /\ InRange(p)
    /\ (pc = "inner" /\ i <= nn) =>
           \A p \in {i - 1, i, i + mmax - 1, i + mmax} :
               p \in 0..(2 * n - 1) /\ InRange(p)
    /\ (Validated \/ (Returned /\ Classify(LenData) = "nil")) => err = "nil"

\* the last butterfly of the last stage touches the last entry
C7_Witness ==
    pc = "inner" /\ nn = 16 /\ i <= nn /\ i + mmax = nn - 1 /\ inverse

\* C8: at the head of the bit-reversal loop with i = 2k+1, j = 2*rev(k)+1;
\* the section moves whole pairs; when it ends the pair that was sample k is
\* sample rev(k).
C8_BitReversal ==
    /\ (pc = "bitrev" /\ i < nn) => j = 2 * Rev((i - 1) \div 2, Log2(n)) + 1
    /\ pc \in {"bitrev", "carry"} => Pairs(data) = Pairs(entry)
    /\ (pc = "bitrev" /\ ~(i < nn)) =>
           \A k \in 0..(n - 1) : Pair(data, Rev(k, Log2(n))) = Pair(entry, k)

C8_Witness ==
    /\ pc = "bitrev" /\ ~(i < nn) /\ n = 8 /\ entry = Ramp(16)
    /\ Pair(data, 3) = Pair(entry, 6) /\ Pair(data, 1) = Pair(entry, 4)

\* C10: (wr, wi) is (1, 0) when a stage begins, no butterfly changes it, and
\* it advances once per sub-offset, after the butterflies of the sub-offset,
\* both components from the pair before the advance; mmax/2 advances a stage.
C10_Twiddle ==
    [][/\ (pc = "outer" /\ pc' = "mloop") => (wr' = One /\ wi' = Zero /\ m' = 1)
       /\ (pc = "inner" /\ pc' = "inner") => (wr' = wr /\ wi' = wi /\ m' = m)
       /\ (pc = "mloop" /\ pc' = "inner") => (wr' = wr /\ wi' = wi /\ m' = m)
       /\ (pc = "inner" /\ pc' = "mloop") =>
              /\ i > nn
              /\ m' = m + 2
              /\ wr' = Add(Sub(Mul(wr, wpr), Mul(wi, wpi)), wr)
              /\ wi' = Add(Add(Mul(wi, wpr), Mul(wr, wpi)), wi)
       /\ (pc = "mloop" /\ pc' = "outer") => (m - 1) \div 2 = mmax \div 2
      ]_vars

\* after one advance in the stage mmax = 8 the pair is (sqrt2/2, -sqrt2/2)
C10_Witness ==
    pc = "inner" /\ mmax = 8 /\ m = 3 /\ wr = Half /\ wi = Neg(Half)

\* C9: the stages run with mmax = 2, 4, ..., n, istep = 2*mmax, the loop is
\* left with mmax = 2n, and every call that is entered returns.
C9_StagesAndTermination ==
    /\ [](pc \in {"mloop", "inner"} =>
            (mmax \in {Pow2(s) : s \in 1..Log2(n)} /\ istep = 2 * mmax))
    /\ []((Returned /\ err = "nil") => mmax = 2 * n)
    /\ [][(mmax' # mmax /\ mmax # 0 /\ mmax' # 0) => mmax' = 2 * mmax]_vars
    /\ [](pc = "checklen" => <>Returned)

C9_Witness ==
    Returned /\ err = "nil" /\ n = 8 /\ mmax = 16 /\ istep = 16

=============================================================================
